---- MODULE Spec2Model ----
(***************************************************************************)
(* Store inventory application (src/app.py): the field normalizers, the    *)
(* products table, the duplicate reconciler, CSV import and export, and    *)
(* the interactive menu shell.                                             *)
(*                                                                         *)
(* A text (a Python str) is a sequence of one-character strings.  The      *)
(* alphabet of the texts used here is the digits, "$", ".", "-", "/" and   *)
(* letters; whitespace and "_" (which int() also accepts) do not occur.    *)
(* A text the program never looks into (a product name, a header label)    *)
(* is written as a single token.                                           *)
(***************************************************************************)
EXTENDS Integers, Sequences, FiniteSets, TLC

VARIABLES
    db,                \* rows of table 'products' as committed, in id order
    inventory_csv,     \* rows of inventory.csv, the header row first
    backup_csv,        \* rows of backup.csv; <<>> while it was never written
    pc,                \* where the process stands
    exc,               \* the uncaught exception that ended the process
    line,              \* the text the latest input() call returned
    id_options,        \* search_id: the list of ids displayed
    product_id,        \* app: the id search_id returned (0: none yet)
    product_name,      \* add_product: the name entered
    product_quantity,  \* add_product: the quantity parsed
    adds               \* number of add flows entered so far

vars == <<db, inventory_csv, backup_csv, pc, exc, line, id_options,
          product_id, product_name, product_quantity, adds>>

-----------------------------------------------------------------------------
(* Bounds of the model *)

\* data rows of inventory.csv
MaxRows == 3
\* add flows entered in one behaviour
MaxAdds == 2
\* data rows of inventory.csv when only the reconciler is exercised
MaxDupRows == 4

-----------------------------------------------------------------------------
(* Python built-ins on texts *)

NoError == "none"

\* no uncaught exception
NoExc == [type |-> NoError, raised_in |-> "none"]

Range(seq) == {seq[i] : i \in 1..Len(seq)}

DigitChars == <<"0", "1", "2", "3", "4", "5", "6", "7", "8", "9">>

IsDigit(c) == \E i \in 1..10 : DigitChars[i] = c

DigitVal(c) == (CHOOSE i \in 1..10 : DigitChars[i] = c) - 1

RECURSIVE DigitsVal(_)
\* value of a non-empty sequence of digits
DigitsVal(s) ==
    IF Len(s) = 0 THEN 0
    ELSE 10 * DigitsVal(SubSeq(s, 1, Len(s) - 1)) + DigitVal(s[Len(s)])

AllDigits(s) == Len(s) > 0 /\ \A i \in 1..Len(s) : IsDigit(s[i])

\* int(text): an optional sign and at least one digit, else ValueError
py_int(s) ==
    LET signed == Len(s) > 0 /\ s[1] \in {"-", "+"}
        body == IF signed THEN Tail(s) ELSE s
    IN  IF AllDigits(body)
        THEN [ok |-> TRUE,
              val |-> IF signed /\ s[1] = "-" THEN 0 - DigitsVal(body)
                      ELSE DigitsVal(body)]
        ELSE [ok |-> FALSE, val |-> 0]

RECURSIVE NatStr(_)
NatStr(n) ==
    IF n < 10 THEN <<DigitChars[n + 1]>>
    ELSE NatStr(n \div 10) \o <<DigitChars[(n % 10) + 1]>>

\* str(n) of an integer
py_str(n) == IF n < 0 THEN <<"-">> \o NatStr(0 - n) ELSE NatStr(n)

RECURSIVE lstrip(_, _)
\* text.lstrip(c): every leading c removed
lstrip(s, c) ==
    IF Len(s) > 0 /\ s[1] = c THEN lstrip(Tail(s), c) ELSE s

RECURSIVE split(_, _)
\* text.split(sep): the list of pieces between separators, never empty
split(s, sep) ==
    IF \A i \in 1..Len(s) : s[i] # sep THEN <<s>>
    ELSE LET k == CHOOSE i \in 1..Len(s) :
                      s[i] = sep /\ \A j \in 1..(i - 1) : s[j] # sep
         IN  <<SubSeq(s, 1, k - 1)>> \o split(SubSeq(s, k + 1, Len(s)), sep)

RECURSIVE join(_)
\* ''.join(parts)
join(parts) ==
    IF Len(parts) = 0 THEN <<>> ELSE Head(parts) \o join(Tail(parts))

-----------------------------------------------------------------------------
(* Field normalizers *)

\* clean_price(price_str): [ok, val]; not ok is ValueError
clean_price(price_str) ==
    LET price_split == split(lstrip(price_str, "$"), ".")
    IN  py_int(join(price_split))

IsLeap(y) == (y % 4 = 0 /\ y % 100 # 0) \/ y % 400 = 0

DaysInMonth(y, m) ==
    IF m \in {4, 6, 9, 11} THEN 30
    ELSE IF m = 2 THEN (IF IsLeap(y) THEN 29 ELSE 28)
    ELSE 31

\* datetime.datetime(year, month, day[, time of day]); tod in seconds
datetime(year, month, day, tod) ==
    IF year >= 1 /\ year <= 9999 /\ month >= 1 /\ month <= 12
       /\ day >= 1 /\ day <= DaysInMonth(year, month)
    THEN [err |-> NoError,
          val |-> [year |-> year, month |-> month, day |-> day, tod |-> tod]]
    ELSE [err |-> "ValueError", val |-> <<>>]

\* clean_date(date_str): [err, val]; err is the exception raised, if any
clean_date(date_str) ==
    LET date_split == split(date_str, "/")
        month == py_int(date_split[1])
    IN  IF ~month.ok THEN [err |-> "ValueError", val |-> <<>>]
        ELSE IF Len(date_split) < 2 THEN [err |-> "IndexError", val |-> <<>>]
        ELSE LET day == py_int(date_split[2])
             IN  IF ~day.ok THEN [err |-> "ValueError", val |-> <<>>]
                 ELSE IF Len(date_split) < 3
                      THEN [err |-> "IndexError", val |-> <<>>]
                 ELSE LET year == py_int(date_split[3])
                      IN  IF ~year.ok
                          THEN [err |-> "ValueError", val |-> <<>>]
                          ELSE datetime(year.val, month.val, day.val, 0)

\* a < b of two datetime values
date_lt(a, b) ==
    \/ a.year < b.year
    \/ a.year = b.year /\ a.month < b.month
    \/ a.year = b.year /\ a.month = b.month /\ a.day < b.day
    \/ a.year = b.year /\ a.month = b.month /\ a.day = b.day /\ a.tod < b.tod

-----------------------------------------------------------------------------
(* The products table and its queries *)

\* a Product row
Product(id, name, quantity, price, date) ==
    [product_id |-> id, product_name |-> name, product_quantity |-> quantity,
     product_price |-> price, date_updated |-> date]

RECURSIVE MaxId(_)
MaxId(store) ==
    IF Len(store) = 0 THEN 0
    ELSE LET m == MaxId(Tail(store))
         IN  IF Head(store).product_id > m THEN Head(store).product_id ELSE m

\* INTEGER PRIMARY KEY of a new row: one more than the largest in the table
NextId(store) == MaxId(store) + 1

\* session.add of each pending row, then the flush: ids in order of addition
insert_all(store, pending) ==
    store \o [k \in 1..Len(pending) |->
                 Product(NextId(store) + k - 1, pending[k].name,
                         pending[k].quantity, pending[k].price, pending[k].date)]

\* session.delete(row) and the flush; a row already gone deletes nothing
delete(store, row) ==
    SelectSeq(store, LAMBDA r : r.product_id # row.product_id)

\* Query.one_or_none(): the row, None, or MultipleResultsFound
one_or_none(rows) ==
    IF Len(rows) > 1
    THEN [err |-> "MultipleResultsFound", found |-> FALSE, row |-> <<>>]
    ELSE IF Len(rows) = 1
         THEN [err |-> NoError, found |-> TRUE, row |-> rows[1]]
         ELSE [err |-> NoError, found |-> FALSE, row |-> <<>>]

\* filter(Product.product_name == name)
filter_name(store, name) ==
    SelectSeq(store, LAMBDA r : r.product_name = name)

\* filter(product_id != product.product_id).filter(product_name == ...)
filter_duplicates(store, product) ==
    SelectSeq(store, LAMBDA r : r.product_id # product.product_id
                                /\ r.product_name = product.product_name)

-----------------------------------------------------------------------------
(* Duplicate reconciler *)

\* body of the loop of check_duplicates for one product of the snapshot;
\* store is what the session sees (deletions so far flushed by autoflush)
check_duplicates_visit(product, store) ==
    LET product_duplicate == one_or_none(filter_duplicates(store, product))
    IN  IF product_duplicate.err # NoError
        THEN [err |-> product_duplicate.err, store |-> store]
        ELSE IF ~product_duplicate.found
        THEN [err |-> NoError, store |-> store]
        ELSE IF date_lt(product_duplicate.row.date_updated,
                        product.date_updated)
        THEN [err |-> NoError, store |-> delete(store, product_duplicate.row)]
        ELSE IF date_lt(product.date_updated,
                        product_duplicate.row.date_updated)
        THEN [err |-> NoError, store |-> delete(store, product)]
        ELSE [err |-> NoError, store |-> store]

RECURSIVE check_duplicates_stop_early(_, _, _)
\* as check_duplicates_loop, but returning after the first deletion
check_duplicates_stop_early(data, i, store) ==
    IF i > Len(data) THEN [err |-> NoError, store |-> store]
    ELSE LET r == check_duplicates_visit(data[i], store)
         IN  IF r.err # NoError \/ r.store # store THEN r
             ELSE check_duplicates_stop_early(data, i + 1, r.store)

RECURSIVE check_duplicates_loop(_, _, _)
\* for product in data: from the i-th product of the snapshot on
check_duplicates_loop(data, i, store) ==
    IF i > Len(data) THEN [err |-> NoError, store |-> store]
    ELSE LET r == check_duplicates_visit(data[i], store)
         IN  IF r.err # NoError THEN r
             ELSE check_duplicates_loop(data, i + 1, r.store)

\* check_duplicates(): [err, store]; store is the table after the commit, or
\* the table as it was when the exception leaves before the commit
check_duplicates(store) ==
    LET r == check_duplicates_loop(store, 1, store)
    IN  IF r.err # NoError THEN [err |-> r.err, store |-> store] ELSE r

-----------------------------------------------------------------------------
(* CSV import *)

\* body of the loop of add_csv for one data row: [err, val]
add_csv_row(row) ==
    IF Len(row) < 2 THEN [err |-> "IndexError", val |-> <<>>]
    ELSE LET price == clean_price(row[2])
         IN  IF ~price.ok THEN [err |-> "ValueError", val |-> <<>>]
             ELSE IF Len(row) < 3 THEN [err |-> "IndexError", val |-> <<>>]
             ELSE LET quantity == py_int(row[3])
                  IN  IF ~quantity.ok THEN [err |-> "ValueError", val |-> <<>>]
                      ELSE IF Len(row) < 4
                           THEN [err |-> "IndexError", val |-> <<>>]
                      ELSE LET date_updated == clean_date(row[4])
                           IN  IF date_updated.err # NoError
                               THEN [err |-> date_updated.err, val |-> <<>>]
                               ELSE [err |-> NoError,
                                     val |-> [name |-> row[1],
                                              price |-> price.val,
                                              quantity |-> quantity.val,
                                              date |-> date_updated.val]]

RECURSIVE add_csv_rows(_, _, _)
\* for count, row in enumerate(data), from the i-th row of the file on;
\* pending is what session.add has collected: [err, pending]
add_csv_rows(data, i, pending) ==
    IF i > Len(data) THEN [err |-> NoError, pending |-> pending]
    ELSE IF i = 1 THEN add_csv_rows(data, i + 1, pending)
    ELSE LET r == add_csv_row(data[i])
         IN  IF r.err # NoError THEN [err |-> r.err, pending |-> pending]
             ELSE add_csv_rows(data, i + 1, Append(pending, r.val))

\* as add_csv_import, with every row committed as soon as it is added
add_csv_import_each(data) ==
    LET r == add_csv_rows(data, 1, <<>>)
    IN  [err |-> r.err, committed |-> r.pending]

\* the with-block of add_csv: [err, committed]; the one commit follows the
\* loop, so an exception inside the loop leaves with nothing committed
add_csv_import(data) ==
    LET r == add_csv_rows(data, 1, <<>>)
    IN  [err |-> r.err,
         committed |-> IF r.err # NoError THEN <<>> ELSE r.pending]

-----------------------------------------------------------------------------
(* CSV export *)

Pad2(n) == IF n < 10 THEN <<"0">> \o NatStr(n) ELSE NatStr(n)

\* date.strftime('%m/%d/%Y'), for a year of four digits
strftime(d) ==
    Pad2(d.month) \o <<"/">> \o Pad2(d.day) \o <<"/">> \o NatStr(d.year)

\* f'{price / 100}': the shortest decimal text of the float price / 100,
\* which keeps one digit after the point at least and drops a final zero
float_div_100(price) ==
    LET a == IF price < 0 THEN 0 - price ELSE price
        sign == IF price < 0 THEN <<"-">> ELSE <<>>
        frac == IF a % 100 = 0 THEN <<"0">>
                ELSE IF a % 10 = 0 THEN NatStr((a % 100) \div 10)
                ELSE Pad2(a % 100)
    IN  sign \o NatStr(a \div 100) \o <<".">> \o frac

header_labels ==
    <<<<"product_name">>, <<"product_price">>,
      <<"product_quantity">>, <<"date_updated">>>>

\* backup_db(): the rows written to backup.csv
backup_db(store) ==
    <<header_labels>> \o
    [i \in 1..Len(store) |->
        <<store[i].product_name,
          <<"$">> \o float_div_100(store[i].product_price),
          py_str(store[i].product_quantity),
          strftime(store[i].date_updated)>>]

-----------------------------------------------------------------------------
(* Interactive shell: helpers *)

\* menu(): choice in ['v', 'a', 'b', 'q']
menu_valid(choice) == choice \in {<<"v">>, <<"a">>, <<"b">>, <<"q">>}

\* as check_id, without the test that the id is one of the options
check_id_unlisted(choice, options) == py_int(choice)

\* check_id(choice, options): [ok, val]; not ok is the return of None
check_id(choice, options) ==
    LET product_id_ == py_int(choice)
    IN  IF ~product_id_.ok THEN [ok |-> FALSE, val |-> 0]
        ELSE IF product_id_.val \in Range(options) THEN product_id_
        ELSE [ok |-> FALSE, val |-> 0]

\* search_id(): the ids of the table, in table order
search_id_options(store) == [i \in 1..Len(store) |-> store[i].product_id]

\* view_product(product_id): .first() of the rows with that id; None has no
\* attribute product_name
view_product(store, id) ==
    IF \E i \in 1..Len(store) : store[i].product_id = id
    THEN NoError ELSE "AttributeError"

\* add_product() from the query on: [err, store]
add_product_upsert(store, name, quantity, price, date_updated) ==
    LET duplicate_product == one_or_none(filter_name(store, name))
    IN  IF duplicate_product.err # NoError
        THEN [err |-> duplicate_product.err, store |-> store]
        ELSE IF ~duplicate_product.found
        THEN [err |-> NoError,
              store |-> insert_all(store, <<[name |-> name, price |-> price,
                                             quantity |-> quantity,
                                             date |-> date_updated]>>)]
        ELSE [err |-> NoError,
              store |-> [i \in 1..Len(store) |->
                  IF store[i].product_id = duplicate_product.row.product_id
                  THEN [store[i] EXCEPT !.product_quantity = quantity,
                                        !.product_price = price,
                                        !.date_updated = date_updated]
                  ELSE store[i]]]

-----------------------------------------------------------------------------
(* The texts the environment supplies *)

Widget == <<"Widget">>
Gadget == <<"Gadget">>
Sprocket == <<"Sprocket">>

\* rows of inventory.csv: name, price, quantity, date
RowWidgetJan == <<Widget, <<"$", "5", ".", "0", "0">>, <<"5">>,
                  <<"1", "/", "1", "/", "2", "0", "2", "2">>>>
RowWidgetFeb == <<Widget, <<"$", "9", ".", "9", "9">>, <<"3">>,
                  <<"2", "/", "1", "/", "2", "0", "2", "2">>>>
RowWidgetOld == <<Widget, <<"$", "1", "9", ".", "9", "0">>, <<"-", "2">>,
                  <<"3", "/", "1", "4", "/", "2", "0", "2", "1">>>>
RowGadgetJan == <<Gadget, <<"$", "0", ".", "0", "5">>, <<"0">>,
                  <<"1", "/", "1", "/", "2", "0", "2", "2">>>>
RowGadgetFeb == <<Gadget, <<"$", "1", ".", "2", "5">>, <<"4">>,
                  <<"2", "/", "1", "/", "2", "0", "2", "2">>>>
RowBadPrice  == <<Gadget, <<"a", "b", "c">>, <<"1">>,
                  <<"1", "/", "1", "/", "2", "0", "2", "2">>>>
RowBadQuantity == <<Gadget, <<"$", "1", ".", "0", "0">>, <<"x">>,
                    <<"1", "/", "1", "/", "2", "0", "2", "2">>>>
RowBadDate   == <<Gadget, <<"$", "1", ".", "0", "0">>, <<"1">>,
                  <<"1", "3", "/", "1", "/", "2", "0", "2", "1">>>>
RowBlank     == <<>>

CsvHeader == <<<<"name">>, <<"price">>, <<"quantity">>, <<"date">>>>

CsvRows == {RowWidgetJan, RowWidgetFeb, RowWidgetOld, RowGadgetJan,
            RowBadPrice, RowBadQuantity, RowBadDate, RowBlank}

DupRows == {RowWidgetJan, RowWidgetFeb, RowWidgetOld, RowGadgetJan,
            RowGadgetFeb}

\* the files of a header and at most n data rows out of rows
Files(rows, n) ==
    {<<CsvHeader>> \o data : data \in UNION {[1..k -> rows] : k \in 0..n}}

MenuLines == {<<"v">>, <<"a">>, <<"b">>, <<"q">>, <<"x">>}
IdLines == {<<"1">>, <<"2">>, <<"7">>, <<"x">>}
NameLines == {Widget, Sprocket}
QuantityLines == {<<"7">>, <<"-", "1">>, <<"x">>}
PriceLines == {<<"$", "2", ".", "5", "0">>, <<"$">>, <<"a", "b", "c">>}
\* the line typed at a 'Press enter' prompt, which the program discards
Enter == <<>>
\* the values datetime.datetime.now() takes
NowSet == {datetime(2023, 6, 15, 43200).val}

-----------------------------------------------------------------------------
(* The process *)

Locals == <<id_options, product_id, product_name, product_quantity>>

ResetLocals ==
    /\ id_options' = <<>>
    /\ product_id' = 0
    /\ product_name' = <<>>
    /\ product_quantity' = 0

InitWith(files) ==
    /\ db = <<>>
    /\ inventory_csv \in files
    /\ backup_csv = <<>>
    /\ exc = NoExc
    /\ line = <<>>
    /\ id_options = <<>>
    /\ product_id = 0
    /\ product_name = <<>>
    /\ product_quantity = 0
    /\ adds = 0

Init == pc = "main" /\ InitWith(Files(CsvRows, MaxRows))

\* __main__: the import runs on an empty table only
Main ==
    /\ pc = "main"
    /\ pc' = IF db = <<>> THEN "add_csv" ELSE "menu"
    /\ UNCHANGED <<db, inventory_csv, backup_csv, exc, line, Locals, adds>>

\* add_csv() up to its commit
AddCsv ==
    /\ pc = "add_csv"
    /\ LET r == add_csv_import(inventory_csv)
       IN  /\ db' = insert_all(db, r.committed)
           /\ IF r.err # NoError
              THEN /\ pc' = "crashed"
                   /\ exc' = [type |-> r.err, raised_in |-> "add_csv"]
              ELSE /\ pc' = "check_duplicates"
                   /\ exc' = exc
    /\ UNCHANGED <<inventory_csv, backup_csv, line, Locals, adds>>

\* check_duplicates(), called at the end of add_csv
CheckDuplicates ==
    /\ pc = "check_duplicates"
    /\ LET r == check_duplicates(db)
       IN  /\ db' = r.store
           /\ IF r.err # NoError
              THEN /\ pc' = "crashed"
                   /\ exc' = [type |-> r.err, raised_in |-> "check_duplicates"]
              ELSE /\ pc' = "menu"
                   /\ exc' = exc
    /\ UNCHANGED <<inventory_csv, backup_csv, line, Locals, adds>>

\* menu() reads a choice; app() dispatches a valid one
Menu ==
    /\ pc = "menu"
    /\ \E choice \in MenuLines :
        /\ choice = <<"a">> => adds < MaxAdds
        /\ line' = choice
        /\ IF ~menu_valid(choice)
           THEN /\ pc' = "menu_retry"
                /\ UNCHANGED <<backup_csv, Locals, adds>>
           ELSE IF choice = <<"v">>
           THEN /\ pc' = "search_id"
                /\ id_options' = search_id_options(db)
                /\ UNCHANGED <<backup_csv, product_id, product_name,
                               product_quantity, adds>>
           ELSE IF choice = <<"a">>
           THEN /\ pc' = "add_name"
                /\ adds' = adds + 1
                /\ UNCHANGED <<backup_csv, Locals>>
           ELSE IF choice = <<"b">>
           THEN /\ pc' = "backup_continue"
                /\ backup_csv' = backup_db(db)
                /\ UNCHANGED <<Locals, adds>>
           ELSE /\ pc' = "exit"
                /\ UNCHANGED <<backup_csv, Locals, adds>>
    /\ UNCHANGED <<db, inventory_csv, exc>>

\* menu(): 'Press enter to try again.'
MenuRetry ==
    /\ pc = "menu_retry"
    /\ line' = Enter
    /\ pc' = "menu"
    /\ UNCHANGED <<db, inventory_csv, backup_csv, exc, Locals, adds>>

\* search_id() reads an id; app() shows the product of an accepted one
SearchId ==
    /\ pc = "search_id"
    /\ \E id_choice \in IdLines :
        /\ line' = id_choice
        /\ LET r == check_id(id_choice, id_options)
           IN  IF ~r.ok
               THEN /\ pc' = "id_retry"
                    /\ UNCHANGED <<product_id, exc>>
               ELSE /\ product_id' = r.val
                    /\ IF view_product(db, r.val) = NoError
                       THEN pc' = "view_continue" /\ exc' = exc
                       ELSE /\ pc' = "crashed"
                            /\ exc' = [type |-> view_product(db, r.val),
                                       raised_in |-> "view_product"]
    /\ UNCHANGED <<db, inventory_csv, backup_csv, id_options, product_name,
                   product_quantity, adds>>

\* check_id(): 'Press enter to try again.'
IdRetry ==
    /\ pc = "id_retry"
    /\ line' = Enter
    /\ pc' = "search_id"
    /\ UNCHANGED <<db, inventory_csv, backup_csv, exc, Locals, adds>>

\* add_product(): the name
AddName ==
    /\ pc = "add_name"
    /\ \E name \in NameLines :
        /\ line' = name
        /\ product_name' = name
    /\ pc' = "add_quantity"
    /\ UNCHANGED <<db, inventory_csv, backup_csv, exc, id_options, product_id,
                   product_quantity, adds>>

\* add_product(): the quantity, asked again until int() accepts it
AddQuantity ==
    /\ pc = "add_quantity"
    /\ \E quantity \in QuantityLines :
        /\ line' = quantity
        /\ IF py_int(quantity).ok
           THEN /\ product_quantity' = py_int(quantity).val
                /\ pc' = "add_price"
           ELSE /\ UNCHANGED product_quantity
                /\ pc' = "add_quantity"
    /\ UNCHANGED <<db, inventory_csv, backup_csv, exc, id_options, product_id,
                   product_name, adds>>

\* add_product(): the price, asked again until clean_price accepts it, then
\* the insert or update and the commit
AddPrice ==
    /\ pc = "add_price"
    /\ \E price \in PriceLines :
        /\ line' = price
        /\ IF ~clean_price(price).ok
           THEN /\ pc' = "add_price"
                /\ UNCHANGED <<db, exc>>
           ELSE \E date_updated \in NowSet :
                LET r == add_product_upsert(db, product_name, product_quantity,
                                            clean_price(price).val, date_updated)
                IN  /\ db' = r.store
                    /\ IF r.err # NoError
                       THEN /\ pc' = "crashed"
                            /\ exc' = [type |-> r.err,
                                       raised_in |-> "add_product"]
                       ELSE /\ pc' = "add_continue"
                            /\ exc' = exc
    /\ UNCHANGED <<inventory_csv, backup_csv, Locals, adds>>

\* app(): 'Press enter to continue.' at the end of a flow
Continue ==
    /\ pc \in {"view_continue", "add_continue", "backup_continue"}
    /\ line' = Enter
    /\ pc' = "menu"
    /\ ResetLocals
    /\ UNCHANGED <<db, inventory_csv, backup_csv, exc, adds>>

\* the program is started again on the persisted table
Restart ==
    /\ pc \in {"exit", "crashed"}
    /\ pc' = "main"
    /\ exc' = NoExc
    /\ line' = <<>>
    /\ ResetLocals
    /\ UNCHANGED <<db, inventory_csv, backup_csv, adds>>

Next ==
    \/ Main
    \/ AddCsv
    \/ CheckDuplicates
    \/ Menu
    \/ MenuRetry
    \/ SearchId
    \/ IdRetry
    \/ AddName
    \/ AddQuantity
    \/ AddPrice
    \/ Continue
    \/ Restart

Spec == Init /\ [][Next]_vars

-----------------------------------------------------------------------------
(* The reconciler on its own: an import of well-formed rows, the call of   *)
(* check_duplicates that ends add_csv, and one more call right after it.   *)

InitReconcile == pc = "add_csv" /\ InitWith(Files(DupRows, MaxDupRows))

\* check_duplicates() called a second time in a row
CheckDuplicatesAgain ==
    /\ pc \in {"menu", "crashed"}
    /\ exc.raised_in # "add_csv"
    /\ LET r == check_duplicates(db)
       IN  /\ db' = r.store
           /\ exc' = IF r.err # NoError
                     THEN [type |-> r.err, raised_in |-> "check_duplicates"]
                     ELSE NoExc
    /\ pc' = "checked_twice"
    /\ UNCHANGED <<inventory_csv, backup_csv, line, Locals, adds>>

NextReconcile ==
    \/ AddCsv
    \/ CheckDuplicates
    \/ CheckDuplicatesAgain

SpecReconcile == InitReconcile /\ [][NextReconcile]_vars

-----------------------------------------------------------------------------
(* Properties *)

Names(store) == {store[i].product_name : i \in 1..Len(store)}

NamesDistinct(store) ==
    \A i, j \in 1..Len(store) :
        i # j => store[i].product_name # store[j].product_name

DatesDistinct(rows) ==
    \A i, j \in 1..Len(rows) :
        i # j => rows[i].date_updated # rows[j].date_updated

\* d is the latest date_updated of rows
IsMaxDate(rows, d) ==
    /\ \E i \in 1..Len(rows) : rows[i].date_updated = d
    /\ \A i \in 1..Len(rows) : ~date_lt(d, rows[i].date_updated)

DataRows(file) == IF Len(file) = 0 THEN <<>> ELSE Tail(file)

\* the row lacks a field, or its price, quantity or date does not parse
RowFails(row) ==
    \/ Len(row) < 4
    \/ ~clean_price(row[2]).ok
    \/ ~py_int(row[3]).ok
    \/ clean_date(row[4]).err # NoError

\* the (name, price, quantity) triples of data rows, read with the normalizers
Triples(rows) ==
    {<<rows[i][1], clean_price(rows[i][2]).val, py_int(rows[i][3]).val>> :
        i \in 1..Len(rows)}

\* C1: when check_duplicates returns, no two records of the store have the
\* same name, whatever rows the store held before.
C1_NamesDistinctAfterReconcile ==
    [][(pc = "check_duplicates" /\ pc' = "menu") => NamesDistinct(db')]_vars

\* C2: for every name with two or more records of pairwise distinct
\* last_updated, one call of check_duplicates leaves exactly one record of
\* that name, the one with the latest last_updated.
C2_KeepsLatestOfGroup ==
    [][pc = "check_duplicates" =>
        \A name \in Names(db) :
            LET before == filter_name(db, name)
                after == filter_name(db', name)
            IN  (Len(before) >= 2 /\ DatesDistinct(before)) =>
                    /\ Len(after) = 1
                    /\ IsMaxDate(before, after[1].date_updated)]_vars

\* C3: check_duplicates run a second time in a row leaves the records the
\* first run left.
C3_ReconcileIdempotent ==
    [][pc' = "checked_twice" => db' = db]_vars

\* C3 witness: both runs returned and the first one had removed a record.
C3_Witness ==
    /\ pc = "checked_twice"
    /\ exc = NoExc
    /\ Len(db) >= 1
    /\ Len(db) < Len(DataRows(inventory_csv))

\* C4: add_product with a name the store holds updates quantity, price and
\* timestamp of that record, keeps its id and the number of records; with a
\* new name it appends exactly one record and changes no other.
C4_Upsert ==
    [][(pc = "add_price" /\ clean_price(line').ok) =>
        IF product_name \in Names(db)
        THEN /\ Len(db') = Len(db)
             /\ \E i \in 1..Len(db) :
                    /\ db[i].product_name = product_name
                    /\ db'[i].product_id = db[i].product_id
                    /\ db'[i].product_name = product_name
                    /\ db'[i].product_quantity = product_quantity
                    /\ db'[i].product_price = clean_price(line').val
                    /\ db'[i].date_updated \in NowSet
        ELSE /\ Len(db') = Len(db) + 1
             /\ SubSeq(db', 1, Len(db)) = db
             /\ db'[Len(db')].product_name = product_name
             /\ db'[Len(db')].product_quantity = product_quantity
             /\ db'[Len(db')].product_price = clean_price(line').val]_vars

\* C5: check_duplicates raises no error, whatever the store holds.
C5_ReconcileNeverRaises == exc.raised_in # "check_duplicates"

\* C6: add_csv is all-or-nothing: when a data row fails to parse the import
\* fails and the store is as before; otherwise every data row is committed,
\* in file order, and check_duplicates is what runs next.
C6_ImportAllOrNothing ==
    [][pc = "add_csv" =>
        LET rows == DataRows(inventory_csv)
        IN  IF \E i \in 1..Len(rows) : RowFails(rows[i])
            THEN db' = db /\ pc' = "crashed"
            ELSE /\ pc' = "check_duplicates"
                 /\ Len(db') = Len(db) + Len(rows)
                 /\ SubSeq(db', 1, Len(db)) = db
                 /\ \A i \in 1..Len(rows) :
                     LET p == db'[Len(db) + i]
                     IN  /\ p.product_name = rows[i][1]
                         /\ p.product_price = clean_price(rows[i][2]).val
                         /\ p.product_quantity = py_int(rows[i][3]).val
                         /\ p.date_updated = clean_date(rows[i][4]).val]_vars

\* C6 witness: the import failed at a later row after a first row that
\* parses, and the store holds nothing.
C6_Witness ==
    /\ pc = "crashed"
    /\ exc.raised_in = "add_csv"
    /\ Len(inventory_csv) >= 3
    /\ ~RowFails(inventory_csv[2])
    /\ db = <<>>

\* C7: from an empty store, import then export gives a backup file whose
\* (name, price, quantity) triples, read back with the normalizers, are the
\* triples of the imported file.
C7_RoundTrip ==
    (/\ backup_csv # <<>>
     /\ adds = 0
     /\ \A i \in 1..Len(DataRows(inventory_csv)) :
            ~RowFails(DataRows(inventory_csv)[i]))
    => Triples(DataRows(backup_csv)) = Triples(DataRows(inventory_csv))

\* a non-numeric or not-listed product id
InvalidId(choice, options) ==
    ~py_int(choice).ok \/ py_int(choice).val \notin Range(options)

\* C8: an invalid menu choice, product id, quantity or price changes
\* nothing in the store, ends neither the shell nor the flow, and leads back
\* to the same prompt; search_id returns only an id of the displayed list.
C8_InvalidInputReprompts ==
    [][/\ (pc = "menu" /\ ~(line' \in {<<"v">>, <<"a">>, <<"b">>, <<"q">>}))
            => (pc' = "menu_retry" /\ db' = db)
       /\ pc = "menu_retry" => (pc' = "menu" /\ db' = db)
       /\ (pc = "search_id" /\ InvalidId(line', id_options))
            => (pc' = "id_retry" /\ db' = db /\ id_options' = id_options)
       /\ pc = "id_retry"
            => (pc' = "search_id" /\ db' = db /\ id_options' = id_options)
       /\ (pc = "search_id" /\ pc' # "id_retry")
            => (product_id' \in Range(id_options) /\ pc' = "view_continue")
       /\ (pc = "add_quantity" /\ ~py_int(line').ok)
            => (/\ pc' = "add_quantity"
                /\ db' = db
                /\ product_name' = product_name)
       /\ (pc = "add_price" /\ ~clean_price(line').ok)
            => (/\ pc' = "add_price"
                /\ db' = db
                /\ product_name' = product_name
                /\ product_quantity' = product_quantity)]_vars

\* C8 witness: a numeric id that is not in the displayed, non-empty list was
\* rejected and the id prompt comes next.
C8_Witness ==
    /\ pc = "id_retry"
    /\ py_int(line).ok
    /\ id_options # <<>>
    /\ py_int(line).val \notin Range(id_options)

\* C9: every flow that is entered can be completed by some user input, so
\* the menu, and with it Exit, stays reachable: in the view flow some id
\* is accepted, in the add flow the insert or update goes through, and no
\* function of the shell ends the process with an exception.
C9_FlowsCanComplete ==
    /\ pc \in {"search_id", "id_retry"} =>
           \E i \in 1..Len(id_options) :
               check_id(py_str(id_options[i]), id_options).ok
    /\ pc \in {"add_quantity", "add_price"} =>
           \E date_updated \in NowSet :
               add_product_upsert(db, product_name, 0, 0, date_updated).err
                   = NoError
    /\ exc.raised_in \notin {"add_product", "view_product"}

\* C10: every stored record has quantity >= 0.
C10_QuantityNonNegative ==
    \A i \in 1..Len(db) : db[i].product_quantity >= 0

====
